---- MODULE Spec2Model ----
(***************************************************************************)
(* A model of server.js: the /prepare-pdf conversion endpoint, the         *)
(* in-memory pdfStore with its expiry timers, and the consuming            *)
(* /download/:id endpoint.                                                 *)
(*                                                                         *)
(* Strings whose characters matter (names, template names, filenames,      *)
(* identifiers) are sequences of one-character strings.  An html document  *)
(* is a sequence of markup tokens, '</head>' being one token.  A value     *)
(* that JavaScript may hand the handler in several types is a record       *)
(* [type, val].                                                            *)
(***************************************************************************)
EXTENDS Naturals, Sequences, FiniteSets

VARIABLES pdfStore, timers, requests, nextUuid, now, ok200, last

vars == <<pdfStore, timers, requests, nextUuid, now, ok200, last>>

(***************************************************************************)
(* Bounds of the model.                                                    *)
(***************************************************************************)
MaxRequests == 2
MaxTicks == 2
TickMs == 300000
MaxNameLen == 3
MaxHtmlLen == 3
MaxLiveRequests == 1

(***************************************************************************)
(* JavaScript values.                                                      *)
(***************************************************************************)
JsString(s) == [type |-> "string", val |-> s]
Undefined == [type |-> "undefined", val |-> <<>>]
JsNumber == [type |-> "number", val |-> <<"5">>]
JsArray == [type |-> "array", val |-> <<>>]
JsFunction(src) == [type |-> "function", val |-> <<src>>]

\* Mutant of Truthy: a test against undefined alone, which lets '' through.
TruthyUnlessUndefined(v) == v.type # "undefined"

\* ToBoolean: undefined and '' are falsy; the non-zero number, arrays,
\* functions and non-empty strings are truthy.
Truthy(v) ==
    CASE v.type = "undefined" -> FALSE
      [] v.type = "string" -> v.val # <<>>
      [] OTHER -> TRUE

(***************************************************************************)
(* Characters.                                                             *)
(***************************************************************************)
Lower == <<"a","b","c","d","e","f","g","h","i","j","k","l","m",
           "n","o","p","q","r","s","t","u","v","w","x","y","z">>
Upper == <<"A","B","C","D","E","F","G","H","I","J","K","L","M",
           "N","O","P","Q","R","S","T","U","V","W","X","Y","Z">>
Digits == <<"0","1","2","3","4","5","6","7","8","9">>
HexDigits == <<"0","1","2","3","4","5","6","7","8","9","a","b","c","d","e","f">>

Range(s) == {s[i] : i \in 1..Len(s)}

\* The class \s of the regular expressions and of String.prototype.trim.
Whitespace == {" ", "\t", "\n", "\r", "\f"}

\* The class [a-zA-Z0-9_-].
SafeChars == Range(Lower) \cup Range(Upper) \cup Range(Digits) \cup {"_", "-"}

\* String.prototype.toUpperCase on one character.
ToUpperCase(c) ==
    IF \E i \in 1..Len(Lower) : Lower[i] = c
    THEN Upper[CHOOSE i \in 1..Len(Lower) : Lower[i] = c]
    ELSE c

Min(a, b) == IF a <= b THEN a ELSE b

\* String.prototype.substring(0, n).
Substring0(s, n) == SubSeq(s, 1, Min(n, Len(s)))

\* String.prototype.slice(1).
Slice1(s) == SubSeq(s, 2, Len(s))

\* String.prototype.trim.
RECURSIVE TrimStart(_)
TrimStart(s) ==
    IF s # <<>> /\ Head(s) \in Whitespace THEN TrimStart(Tail(s)) ELSE s

RECURSIVE TrimEnd(_)
TrimEnd(s) ==
    IF s # <<>> /\ s[Len(s)] \in Whitespace
    THEN TrimEnd(SubSeq(s, 1, Len(s) - 1))
    ELSE s

Trim(s) == TrimEnd(TrimStart(s))

(***************************************************************************)
(* Identifiers.  uuidv4() is an external generator of collision-resistant *)
(* tokens: the n-th call returns Uuid(n), a 36-character string           *)
(* 'xxxxxxxx-xxxx-4xxx-8xxx-xxxxxxxxxxxx' different from every earlier    *)
(* one.                                                                    *)
(***************************************************************************)
RECURSIVE Hex(_, _)
Hex(n, k) ==
    IF k = 0 THEN <<>> ELSE Append(Hex(n \div 16, k - 1), HexDigits[(n % 16) + 1])

Uuid(n) ==
    Hex(n, 8) \o <<"-","0","0","0","0","-","4","0","0","0","-","8","0","0","0","-",
                   "0","0","0","0","0","0","0","0","0","0","0","0">>

(***************************************************************************)
(* Filename generation (server.js lines 60-75).                            *)
(***************************************************************************)
DefaultBaseName == <<"C", "V">>
BaseNameLimit == 50

\* Mutant of ReplaceWhitespaceRuns: .replace(/\s/g, '_'), one '_' for each
\* whitespace character.
ReplaceEachWhitespace(s) ==
    [i \in 1..Len(s) |-> IF s[i] \in Whitespace THEN "_" ELSE s[i]]

\* .replace(/\s+/g, '_'): every maximal run of whitespace becomes one '_'.
RECURSIVE ReplaceWhitespaceRuns(_)
ReplaceWhitespaceRuns(s) ==
    IF s = <<>> THEN <<>>
    ELSE IF Head(s) \in Whitespace
         THEN <<"_">> \o ReplaceWhitespaceRuns(TrimStart(Tail(s)))
         ELSE <<Head(s)>> \o ReplaceWhitespaceRuns(Tail(s))

\* .replace(/[^a-zA-Z0-9_-]/g, '')
IsSafeChar(c) == c \in SafeChars
StripUnsafe(s) == SelectSeq(s, IsSafeChar)

\* The sanitising chain applied to a non-blank personName string.
SanitizeName(s) ==
    Substring0(StripUnsafe(ReplaceWhitespaceRuns(Trim(s))), BaseNameLimit)

\* let baseName = 'CV'; if (personName && typeof personName === 'string'
\*                          && personName.trim() !== '') baseName = ...
BaseName(personName) ==
    IF Truthy(personName) /\ personName.type = "string" /\ Trim(personName.val) # <<>>
    THEN SanitizeName(personName.val)
    ELSE DefaultBaseName

\* Mutant of TemplateName: req.query.template without the || 'classic'.
TemplateNameAsGiven(template) == template

\* req.query.template || 'classic'
ClassicName == <<"c","l","a","s","s","i","c">>
ModernName == <<"m","o","d","e","r","n">>
MinimalName == <<"m","i","n","i","m","a","l">>
TemplateName(template) == IF Truthy(template) THEN template ELSE JsString(ClassicName)

\* templateName.charAt(0).toUpperCase() + templateName.slice(1)
TemplateSuffix(t) ==
    (IF t = <<>> THEN <<>> ELSE <<ToUpperCase(t[1])>>) \o Slice1(t)

PdfExtension == <<".", "p", "d", "f">>

\* uuidv4().substring(0, 8)
UniqueId(uuid) == Substring0(uuid, 8)

\* `${baseName}_${templateSuffix}_${uniqueId}.pdf`
Filename(baseName, templateSuffix, uniqueId) ==
    baseName \o <<"_">> \o templateSuffix \o <<"_">> \o uniqueId \o PdfExtension

(***************************************************************************)
(* Template styles (lines 18-39, 77-86).  TEMPLATE_STYLES is a plain       *)
(* object literal, so a property read also finds what the object inherits  *)
(* from Object.prototype.  A style snippet is constant text holding        *)
(* neither '</head>' nor '$' and is kept as one token.                     *)
(***************************************************************************)
ConstructorName == <<"c","o","n","s","t","r","u","c","t","o","r">>
ToStringName == <<"t","o","S","t","r","i","n","g">>

OwnTemplateKeys == {ClassicName, ModernName, MinimalName}
InheritedKeys == {ConstructorName, ToStringName}

OwnStyle(t) ==
    CASE t = ClassicName -> JsString(<<"/* Classic Styles */">>)
      [] t = ModernName -> JsString(<<"/* Modern Styles */">>)
      [] t = MinimalName -> JsString(<<"/* Minimal Styles */">>)

InheritedValue(t) ==
    CASE t = ConstructorName -> JsFunction("function Object() { [native code] }")
      [] t = ToStringName -> JsFunction("function toString() { [native code] }")

\* TEMPLATE_STYLES[templateName]
TemplateStylesGet(t) ==
    IF t \in OwnTemplateKeys THEN OwnStyle(t)
    ELSE IF t \in InheritedKeys THEN InheritedValue(t)
    ELSE Undefined

\* TEMPLATE_STYLES[templateName] || ''
StyleSnippet(t) ==
    IF Truthy(TemplateStylesGet(t)) THEN TemplateStylesGet(t) ELSE JsString(<<>>)

HeadClose == "</head>"

\* `<style id="template-injection">${styleSnippet}</style>`
StyleTag(snippet) ==
    <<"<style id=\"template-injection\">">> \o snippet.val \o <<"</style>">>

\* Mutant of ReplaceFirst: every occurrence is replaced (a /<\/head>/g pattern).
RECURSIVE ReplaceAll(_, _, _)
ReplaceAll(s, pattern, replacement) ==
    IF s = <<>> THEN <<>>
    ELSE (IF Head(s) = pattern THEN replacement ELSE <<Head(s)>>)
            \o ReplaceAll(Tail(s), pattern, replacement)

\* String.prototype.replace(pattern, replacement) with a string pattern: only
\* the first occurrence is replaced, and a string without one is returned as is.
ReplaceFirst(s, pattern, replacement) ==
    IF \E i \in 1..Len(s) : s[i] = pattern
    THEN LET i == CHOOSE k \in 1..Len(s) :
                      s[k] = pattern /\ \A j \in 1..(k - 1) : s[j] # pattern
         IN SubSeq(s, 1, i - 1) \o replacement \o SubSeq(s, i + 1, Len(s))
    ELSE s

\* let finalHtml = html; if (styleSnippet) finalHtml = html.replace('</head>', ...)
FinalHtml(html, snippet) ==
    IF Truthy(snippet)
    THEN ReplaceFirst(html, HeadClose, StyleTag(snippet) \o <<"\n", HeadClose>>)
    ELSE html

(***************************************************************************)
(* The store and its timers (lines 11, 103, 106, 117, 127).                *)
(***************************************************************************)
\* 10 * 60 * 1000 milliseconds.
TTL == 10 * 60 * 1000

\* Mutant of StoreDelete: the whole map is cleared.
StoreClear(store, id) == <<>>

\* Mutant of ScheduleExpiry: a delay of 10 * 1000 milliseconds.
ScheduleExpiryShort(pending, id, t) == pending \cup {[id |-> id, due |-> t + 10 * 1000]}

\* Mutant of ScheduleExpiry: no timer is set.
ScheduleNothing(pending, id, t) == pending

\* Mutant of StoreSet: the map is replaced by one holding the new entry only.
StoreReplace(store, id, entry) == [k \in {id} |-> entry]

\* Map.prototype.set / get / delete on a map kept as a function.
StoreSet(store, id, entry) ==
    [k \in (DOMAIN store) \cup {id} |-> IF k = id THEN entry ELSE store[k]]
StoreHas(store, id) == id \in DOMAIN store
StoreDelete(store, id) == [k \in (DOMAIN store) \ {id} |-> store[k]]

\* setTimeout(() => pdfStore.delete(id), 10 * 60 * 1000) called at time t.
ScheduleExpiry(pending, id, t) == pending \cup {[id |-> id, due |-> t + TTL]}

(***************************************************************************)
(* Responses.  Every step records in `last` the event handled and the      *)
(* response it sent, if any (status 0: no response sent in this step).     *)
(***************************************************************************)
NoInput == [html |-> Undefined, personName |-> Undefined, template |-> Undefined]

Event(op) ==
    [op |-> op, status |-> 0, req |-> 0, id |-> <<>>, bytes |-> "", filename |-> <<>>,
     downloadUrl |-> <<>>, message |-> "", input |-> NoInput]

MissingHtmlMessage == "Missing html in request body"
RenderFailedMessage ==
    "Failed to create PDF using Webkit engine. Check server logs for details."
NotFoundMessage == "PDF not found or expired"
\* The body of the framework's answer to a handler that threw.
InternalErrorMessage == "Internal Server Error"

\* `/download/${id}`
DownloadUrl(id) == <<"/","d","o","w","n","l","o","a","d","/">> \o id

\* res.set refuses a header value holding a control character (the http
\* module throws ERR_INVALID_CHAR), so the handler ends in the framework's
\* error answer before res.send and pdfStore.delete are reached.
InvalidHeaderChars == {"\n", "\r", "\f"}
HeaderValueValid(value) == \A i \in 1..Len(value) : value[i] \notin InvalidHeaderChars

\* What the renderer may return as the bytes of a document.
Buffers == {"%PDF-a", "%PDF-b"}

\* The identifiers a caller may ask for.
RequestableIds == {Uuid(n) : n \in 1..(2 * MaxRequests)}

Init ==
    /\ pdfStore = <<>>
    /\ timers = {}
    /\ requests = <<>>
    /\ nextUuid = 0
    /\ now = 0
    /\ ok200 = [id \in RequestableIds |-> 0]
    /\ last = Event("init")

\* Variants of PreparePdf for the mutants below: the id is the one given, and
\* with early set the entry is put in the store before the render.
PreparePdfVariant(html, personName, template, id, early) ==
    LET input == [html |-> html, personName |-> personName, template |-> template]
        templateName == TemplateName(template)
    IN  IF ~Truthy(html)
        THEN /\ last' = [Event("prepare") EXCEPT !.status = 400,
                            !.message = MissingHtmlMessage, !.input = input]
             /\ UNCHANGED <<pdfStore, timers, requests, nextUuid, now, ok200>>
        ELSE IF templateName.type # "string"
        THEN /\ last' = [Event("prepare") EXCEPT !.status = 500,
                            !.message = InternalErrorMessage, !.input = input]
             /\ UNCHANGED <<pdfStore, timers, requests, nextUuid, now, ok200>>
        ELSE LET uniqueId == UniqueId(Uuid(nextUuid + 1))
                 filename == Filename(BaseName(personName),
                                      TemplateSuffix(templateName.val), uniqueId)
                 finalHtml == FinalHtml(html.val, StyleSnippet(templateName.val))
             IN  /\ requests' = Append(requests,
                        [input |-> input, templateName |-> templateName.val,
                         uniqueId |-> uniqueId, filename |-> filename,
                         finalHtml |-> finalHtml, id |-> id,
                         state |-> "rendering", buffer |-> ""])
                 /\ nextUuid' = nextUuid + 2
                 /\ last' = [Event("prepare") EXCEPT !.req = Len(requests) + 1,
                                !.id = id, !.input = input]
                 /\ pdfStore' =
                        IF early
                        THEN [k \in (DOMAIN pdfStore) \cup {id} |->
                                 IF k = id THEN [buffer |-> "", filename |-> filename]
                                 ELSE pdfStore[k]]
                        ELSE pdfStore
                 /\ UNCHANGED <<timers, now, ok200>>

\* Mutant of PreparePdf: const id = uuidv4() evaluated once, at module level.
PreparePdfSharedId(html, personName, template) ==
    PreparePdfVariant(html, personName, template, Uuid(2), FALSE)

\* Mutant of PreparePdf: the entry is created when the render is started.
PreparePdfStoresEarly(html, personName, template) ==
    PreparePdfVariant(html, personName, template, Uuid(nextUuid + 2), TRUE)

(***************************************************************************)
(* POST /prepare-pdf, up to the call of toBuffer (lines 43-96).            *)
(***************************************************************************)
PreparePdf(html, personName, template) ==
    LET input == [html |-> html, personName |-> personName, template |-> template]
        templateName == TemplateName(template)
    IN  IF ~Truthy(html)
        THEN \* return res.status(400).json(...)
             /\ last' = [Event("prepare") EXCEPT !.status = 400,
                            !.message = MissingHtmlMessage, !.input = input]
             /\ UNCHANGED <<pdfStore, timers, requests, nextUuid, now, ok200>>
        ELSE IF templateName.type # "string"
        THEN \* templateName.charAt is not a function: the handler throws
             /\ last' = [Event("prepare") EXCEPT !.status = 500,
                            !.message = InternalErrorMessage, !.input = input]
             /\ UNCHANGED <<pdfStore, timers, requests, nextUuid, now, ok200>>
        ELSE LET uniqueId == UniqueId(Uuid(nextUuid + 1))
                 filename == Filename(BaseName(personName),
                                      TemplateSuffix(templateName.val), uniqueId)
                 finalHtml == FinalHtml(html.val, StyleSnippet(templateName.val))
                 id == Uuid(nextUuid + 2)
             IN  /\ requests' = Append(requests,
                        [input |-> input, templateName |-> templateName.val,
                         uniqueId |-> uniqueId, filename |-> filename,
                         finalHtml |-> finalHtml, id |-> id,
                         state |-> "rendering", buffer |-> ""])
                 /\ nextUuid' = nextUuid + 2
                 /\ last' = [Event("prepare") EXCEPT !.req = Len(requests) + 1,
                                !.id = id, !.input = input]
                 /\ UNCHANGED <<pdfStore, timers, now, ok200>>

\* Mutant of RenderFailed: the error branch without its return, so that the
\* callback goes on to store the entry and schedule its expiry.
RenderFailedFallsThrough(r) ==
    /\ r \in 1..Len(requests)
    /\ requests[r].state = "rendering"
    /\ pdfStore' = [k \in (DOMAIN pdfStore) \cup {requests[r].id} |->
                        IF k = requests[r].id
                        THEN [buffer |-> "", filename |-> requests[r].filename]
                        ELSE pdfStore[k]]
    /\ timers' = timers \cup {[id |-> requests[r].id, due |-> now + TTL]}
    /\ requests' = [requests EXCEPT ![r].state = "failed"]
    /\ last' = [Event("render") EXCEPT !.status = 500, !.req = r,
                   !.id = requests[r].id, !.message = RenderFailedMessage]
    /\ UNCHANGED <<nextUuid, now, ok200>>

(***************************************************************************)
(* The toBuffer callback (lines 96-111).                                   *)
(***************************************************************************)
RenderFailed(r) ==
    /\ r \in 1..Len(requests)
    /\ requests[r].state = "rendering"
    /\ requests' = [requests EXCEPT ![r].state = "failed"]
    /\ last' = [Event("render") EXCEPT !.status = 500, !.req = r,
                   !.id = requests[r].id, !.message = RenderFailedMessage]
    /\ UNCHANGED <<pdfStore, timers, nextUuid, now, ok200>>

\* Mutant of RenderSucceeded: filename kept in a variable shared by all
\* requests, so the callback sees the filename of the latest request.
RenderSucceededSharedFilename(r, buffer) ==
    /\ r \in 1..Len(requests)
    /\ requests[r].state = "rendering"
    /\ LET id == requests[r].id
           filename == requests[Len(requests)].filename
       IN  /\ pdfStore' = [k \in (DOMAIN pdfStore) \cup {id} |->
                              IF k = id THEN [buffer |-> buffer, filename |-> filename]
                              ELSE pdfStore[k]]
           /\ timers' = timers \cup {[id |-> id, due |-> now + TTL]}
           /\ requests' = [requests EXCEPT ![r].state = "stored", ![r].buffer = buffer]
           /\ last' = [Event("render") EXCEPT !.status = 200, !.req = r, !.id = id,
                          !.downloadUrl = DownloadUrl(id), !.filename = filename]
    /\ UNCHANGED <<nextUuid, now, ok200>>

RenderSucceeded(r, buffer) ==
    /\ r \in 1..Len(requests)
    /\ requests[r].state = "rendering"
    /\ LET id == requests[r].id
           filename == requests[r].filename
       IN  /\ pdfStore' = StoreSet(pdfStore, id, [buffer |-> buffer, filename |-> filename])
           /\ timers' = ScheduleExpiry(timers, id, now)
           /\ requests' = [requests EXCEPT ![r].state = "stored", ![r].buffer = buffer]
           /\ last' = [Event("render") EXCEPT !.status = 200, !.req = r, !.id = id,
                          !.downloadUrl = DownloadUrl(id), !.filename = filename]
    /\ UNCHANGED <<nextUuid, now, ok200>>

\* Mutant of Download: the handler without its final pdfStore.delete(id).
DownloadKeeps(id) ==
    IF id \notin DOMAIN pdfStore
    THEN /\ last' = [Event("download") EXCEPT !.status = 404, !.id = id,
                        !.message = NotFoundMessage]
         /\ UNCHANGED <<pdfStore, timers, requests, nextUuid, now, ok200>>
    ELSE /\ last' = [Event("download") EXCEPT !.status = 200, !.id = id,
                        !.bytes = pdfStore[id].buffer,
                        !.filename = pdfStore[id].filename]
         /\ ok200' = [ok200 EXCEPT ![id] = @ + 1]
         /\ UNCHANGED <<pdfStore, timers, requests, nextUuid, now>>

(***************************************************************************)
(* GET /download/:id (lines 115-128).                                      *)
(***************************************************************************)
\* Mutant of Download: the handler also clears the timer of the id.
DownloadCancelsTimer(id) ==
    IF id \notin DOMAIN pdfStore
    THEN /\ last' = [Event("download") EXCEPT !.status = 404, !.id = id,
                        !.message = NotFoundMessage]
         /\ UNCHANGED <<pdfStore, timers, requests, nextUuid, now, ok200>>
    ELSE IF ~HeaderValueValid(pdfStore[id].filename)
    THEN /\ last' = [Event("download") EXCEPT !.status = 500, !.id = id,
                        !.message = InternalErrorMessage]
         /\ UNCHANGED <<pdfStore, timers, requests, nextUuid, now, ok200>>
    ELSE /\ last' = [Event("download") EXCEPT !.status = 200, !.id = id,
                        !.bytes = pdfStore[id].buffer,
                        !.filename = pdfStore[id].filename]
         /\ pdfStore' = [k \in (DOMAIN pdfStore) \ {id} |-> pdfStore[k]]
         /\ timers' = {t \in timers : t.id # id}
         /\ ok200' = [ok200 EXCEPT ![id] = @ + 1]
         /\ UNCHANGED <<requests, nextUuid, now>>

Download(id) ==
    IF ~StoreHas(pdfStore, id)
    THEN \* return res.status(404).send(...)
         /\ last' = [Event("download") EXCEPT !.status = 404, !.id = id,
                        !.message = NotFoundMessage]
         /\ UNCHANGED <<pdfStore, timers, requests, nextUuid, now, ok200>>
    ELSE LET data == pdfStore[id]
         IN  IF ~HeaderValueValid(data.filename)
             THEN \* res.set throws
                  /\ last' = [Event("download") EXCEPT !.status = 500, !.id = id,
                                 !.message = InternalErrorMessage]
                  /\ UNCHANGED <<pdfStore, timers, requests, nextUuid, now, ok200>>
             ELSE /\ last' = [Event("download") EXCEPT !.status = 200, !.id = id,
                                 !.bytes = data.buffer, !.filename = data.filename]
                  /\ pdfStore' = StoreDelete(pdfStore, id)
                  /\ ok200' = [ok200 EXCEPT ![id] = @ + 1]
                  /\ UNCHANGED <<timers, requests, nextUuid, now>>

(***************************************************************************)
(* The expiry timer of line 106 fires, no earlier than its delay.          *)
(***************************************************************************)
TimerFires(t) ==
    /\ t \in timers
    /\ now >= t.due
    /\ pdfStore' = StoreDelete(pdfStore, t.id)
    /\ timers' = timers \ {t}
    /\ last' = [Event("expire") EXCEPT !.id = t.id]
    /\ UNCHANGED <<requests, nextUuid, now, ok200>>

\* Time passes.
Tick ==
    /\ now + TickMs <= MaxTicks * TickMs
    /\ now' = now + TickMs
    /\ last' = Event("tick")
    /\ UNCHANGED <<pdfStore, timers, requests, nextUuid, ok200>>

(***************************************************************************)
(* The requests of the concurrent specification: a few documents, with    *)
(* several conversions in flight at once.                                  *)
(***************************************************************************)
SomeDocument == <<"<head>", "</head>", "<p>x</p>">>
LineFeedName == <<"\n">>

Htmls == {Undefined, JsString(<<>>), JsString(SomeDocument)}
Templates == {Undefined, JsString(LineFeedName), JsArray}

Post ==
    /\ Len(requests) < MaxRequests
    /\ \E html \in Htmls, template \in Templates : PreparePdf(html, Undefined, template)

RenderError == \E r \in 1..Len(requests) : RenderFailed(r)

RenderDone == \E r \in 1..Len(requests), buffer \in Buffers : RenderSucceeded(r, buffer)

Get == \E id \in RequestableIds : Download(id)

Expire == \E t \in timers : TimerFires(t)

Next == Post \/ RenderError \/ RenderDone \/ Get \/ Expire \/ Tick

Spec == Init /\ [][Next]_vars

(***************************************************************************)
(* The requests of the conversion specification: one conversion, followed  *)
(* to its download, over every document, personName and template value of  *)
(* the sets below.                                                         *)
(***************************************************************************)
SeqsUpTo(S, n) == UNION {[1..k -> S] : k \in 0..n}

NameChars == {"a", "_", " ", "!"}
TabbedName == <<"\t", "a", "\t", " ", "b", "\n">>
JaneDoe == <<"J","a","n","e"," "," ","D","o","e","!","!">>
\* 63 characters that sanitise to 61, and 51 safe characters.
LongName == [i \in 1..30 |-> "a"] \o <<" ", " ", "!">> \o [i \in 1..30 |-> "b"]
LongSafeName == [i \in 1..51 |-> "x"]

WideNames ==
    {Undefined, JsNumber}
        \cup {JsString(s) : s \in SeqsUpTo(NameChars, MaxNameLen)}
        \cup {JsString(JaneDoe), JsString(TabbedName), JsString(LongName),
              JsString(LongSafeName)}

UnknownKindName == <<"u","n","k","n","o","w","n","-","k","i","n","d">>
QuotedName == <<"x", "\"", "/", "y">>

WideTemplates ==
    {Undefined, JsArray}
        \cup {JsString(t) : t \in {<<>>, ClassicName, ModernName, MinimalName,
                                   UnknownKindName, ConstructorName, ToStringName,
                                   QuotedName, LineFeedName}}

HtmlTokens == {HeadClose, "<p>x</p>"}
WideHtmls == {Undefined} \cup {JsString(d) : d \in SeqsUpTo(HtmlTokens, MaxHtmlLen)}

ConvPost ==
    /\ requests = <<>>
    /\ \E template \in WideTemplates :
          \/ \E html \in WideHtmls : PreparePdf(html, Undefined, template)
          \/ \E personName \in WideNames :
                PreparePdf(JsString(SomeDocument), personName, template)

NextConv == ConvPost \/ RenderError \/ RenderDone \/ Get

SpecConv == Init /\ [][NextConv]_vars

(***************************************************************************)
(* Properties.                                                             *)
(***************************************************************************)
StoredRequests == {r \in 1..Len(requests) : requests[r].state = "stored"}
TimerPending(id) == \E t \in timers : t.id = id

\* C1: for every id at most one GET /download/{id} ever responds 200, and
\* every GET /download/{id} handled after a successful download of that id
\* responds 404.
C1_SingleDownload ==
    /\ [](\A id \in RequestableIds : ok200[id] <= 1)
    /\ [][\A id \in RequestableIds :
            (ok200[id] >= 1 /\ last'.op = "download" /\ last'.id = id)
                => (last'.status = 404 /\ ok200'[id] = ok200[id])]_vars

\* A second GET of a downloaded id has been answered 404.
C1_Witness ==
    \E id \in RequestableIds :
        ok200[id] = 1 /\ last.op = "download" /\ last.id = id /\ last.status = 404

\* C2 as claimed: a conversion whose render succeeds answers
\* 200 {id, downloadUrl, filename} with downloadUrl = '/download/' + id, and a
\* GET of that id handled while it has not been downloaded and its expiry
\* timer has not fired (the first GET is one) answers 200 with the bytes the
\* renderer returned and the filename of the conversion response.
C2_Claim ==
    [][\A r \in 1..Len(requests) :
         /\ (requests[r].state = "rendering" /\ requests'[r].state = "stored")
               => /\ last'.op = "render" /\ last'.status = 200
                  /\ last'.id = requests[r].id
                  /\ last'.downloadUrl =
                        <<"/","d","o","w","n","l","o","a","d","/">> \o requests[r].id
                  /\ last'.filename = requests[r].filename
         /\ (/\ requests[r].state = "stored"
             /\ ok200[requests[r].id] = 0
             /\ TimerPending(requests[r].id)
             /\ last'.op = "download" /\ last'.id = requests[r].id)
               => /\ last'.status = 200
                  /\ last'.bytes = requests[r].buffer
                  /\ last'.filename = requests[r].filename]_vars

\* C3: an artifact is stored together with an expiry timer due 10 minutes
\* (600000 ms) after the store; while in the store it has that timer pending;
\* it leaves the store only by a download of its id answered 200 or by the
\* firing of its own timer, not before the timer is due; the firing removes
\* it; and a GET of a never-downloaded id whose timer has fired answers 404.
C3_ExpiryRemoves ==
    /\ [](\A id \in DOMAIN pdfStore : TimerPending(id))
    /\ [][\A r \in 1..Len(requests) :
            LET id == requests[r].id
            IN  /\ (requests[r].state = "rendering" /\ requests'[r].state = "stored")
                      => /\ id \in DOMAIN pdfStore'
                         /\ [id |-> id, due |-> now + 600000] \in timers'
                /\ (id \in DOMAIN pdfStore /\ id \notin DOMAIN pdfStore')
                      => \/ last'.op = "download" /\ last'.id = id /\ last'.status = 200
                         \/ /\ last'.op = "expire" /\ last'.id = id
                            /\ \E t \in timers \ timers' : t.id = id /\ now >= t.due
                /\ (last'.op = "expire" /\ last'.id = id) => id \notin DOMAIN pdfStore'
                /\ (/\ requests[r].state = "stored" /\ ~TimerPending(id)
                    /\ ok200[id] = 0
                    /\ last'.op = "download" /\ last'.id = id)
                      => last'.status = 404]_vars

\* A never-downloaded artifact was removed by its timer and a GET of it was
\* answered 404.
C3_Witness ==
    \E r \in StoredRequests :
        /\ ok200[requests[r].id] = 0
        /\ ~TimerPending(requests[r].id)
        /\ requests[r].id \notin DOMAIN pdfStore
        /\ last.op = "download" /\ last.id = requests[r].id /\ last.status = 404

\* C4: a stored entry is removed once and never comes back; the remover is
\* either a download answered 200, made while the timer was still pending,
\* or the timer, firing on an entry no download has taken; the loser (a
\* timer firing after the download, a download after the timer fired)
\* leaves the store unchanged and raises no error, the late download
\* answering 404.
C4_OneWinner ==
    [][\A r \in StoredRequests :
         LET id == requests[r].id
         IN  /\ id \notin DOMAIN pdfStore => id \notin DOMAIN pdfStore'
             /\ (id \in DOMAIN pdfStore /\ id \notin DOMAIN pdfStore')
                   => \/ /\ last'.op = "download" /\ last'.id = id /\ last'.status = 200
                         /\ TimerPending(id) /\ ok200[id] = 0
                      \/ /\ last'.op = "expire" /\ last'.id = id
                         /\ ok200[id] = 0 /\ ok200'[id] = 0
             /\ (id \notin DOMAIN pdfStore /\ last'.id = id /\ last'.op = "expire")
                   => pdfStore' = pdfStore /\ last'.status = 0 /\ last'.message = ""
             /\ (id \notin DOMAIN pdfStore /\ last'.id = id /\ last'.op = "download")
                   => pdfStore' = pdfStore /\ last'.status = 404]_vars

\* The timer of a downloaded artifact has fired while another artifact was
\* in the store.
C4_Witness ==
    /\ last.op = "expire"
    /\ ok200[last.id] = 1
    /\ ~TimerPending(last.id)
    /\ pdfStore # <<>>

\* C5: a POST /prepare-pdf whose html is absent or empty answers 400, and
\* leaves the store, the renders in flight, the timers and the identifier
\* generator as they were.
C5_MissingHtml ==
    [][(/\ last'.op = "prepare"
        /\ last'.input.html \in {Undefined, JsString(<<>>)})
          => /\ last'.status = 400
             /\ pdfStore' = pdfStore
             /\ requests' = requests
             /\ timers' = timers
             /\ nextUuid' = nextUuid]_vars

\* An empty html was answered 400 while an artifact was in the store.
C5_Witness ==
    /\ last.op = "prepare" /\ last.status = 400
    /\ last.input.html = JsString(<<>>)
    /\ pdfStore # <<>>

\* C6: a render that fails answers 500 with the fixed message and leaves the
\* store and the timers as they were; the id of a failed conversion is never
\* in the store and never has a timer.
C6_RenderFailure ==
    /\ [](\A r \in 1..Len(requests) :
            requests[r].state = "failed"
                => requests[r].id \notin DOMAIN pdfStore /\ ~TimerPending(requests[r].id))
    /\ [][\A r \in 1..Len(requests) :
            (requests[r].state = "rendering" /\ requests'[r].state = "failed")
                => /\ last'.op = "render" /\ last'.status = 500
                   /\ last'.message =
                        "Failed to create PDF using Webkit engine. Check server logs for details."
                   /\ pdfStore' = pdfStore
                   /\ timers' = timers]_vars

\* A GET of the id of a failed conversion was answered 404 while another
\* artifact was in the store.
C6_Witness ==
    \E r \in 1..Len(requests) :
        /\ requests[r].state = "failed"
        /\ last.op = "download" /\ last.id = requests[r].id /\ last.status = 404
        /\ pdfStore # <<>>

\* C7 as claimed: every stored filename is made of characters of
\* [A-Za-z0-9_-] followed by '.pdf', and is at most 60 characters long.
C7_Claim ==
    \A id \in DOMAIN pdfStore :
        LET f == pdfStore[id].filename
        IN  /\ Len(f) >= 4
            /\ SubSeq(f, Len(f) - 3, Len(f)) = <<".", "p", "d", "f">>
            /\ \A i \in 1..(Len(f) - 4) : f[i] \in SafeChars
            /\ Len(f) <= 60

KnownTemplates == {ClassicName, ModernName, MinimalName}

\* C8 as claimed: for a template other than 'classic', 'modern' and 'minimal'
\* the document handed to the renderer is the html received.
C8_Claim ==
    \A r \in 1..Len(requests) :
        requests[r].templateName \notin KnownTemplates
            => requests[r].finalHtml = requests[r].input.html.val

\* The style tag of a known template.
C9_StyleTag(t) ==
    <<"<style id=\"template-injection\">",
      CASE t = ClassicName -> "/* Classic Styles */"
        [] t = ModernName -> "/* Modern Styles */"
        [] t = MinimalName -> "/* Minimal Styles */",
      "</style>">>

\* final is html with the tokens ins put right before its first '</head>'.
C9_InsertedBeforeFirst(html, final, ins) ==
    \E i \in 1..Len(html) :
        /\ html[i] = "</head>"
        /\ \A j \in 1..(i - 1) : html[j] # "</head>"
        /\ Len(final) = Len(html) + Len(ins)
        /\ \A j \in 1..(i - 1) : final[j] = html[j]
        /\ \A j \in 1..Len(ins) : final[i - 1 + j] = ins[j]
        /\ \A j \in i..Len(html) : final[j + Len(ins)] = html[j]

C9_Holds(separator) ==
    \A r \in 1..Len(requests) :
        LET html == requests[r].input.html.val
            final == requests[r].finalHtml
        IN  requests[r].templateName \in KnownTemplates
                => IF \E i \in 1..Len(html) : html[i] = "</head>"
                   THEN C9_InsertedBeforeFirst(html, final,
                            C9_StyleTag(requests[r].templateName) \o separator)
                   ELSE final = html

\* C9 as claimed: for a known template the document handed to the renderer
\* is the html with the style tag, and nothing else, inserted before the
\* first '</head>', and the html itself when it holds no '</head>'.
C9_Claim == C9_Holds(<<>>)

\* C9 as amended: for a known template the document handed to the renderer
\* is the html with the style tag followed by one line feed inserted before
\* the first '</head>', every other character (a later '</head>' included)
\* unchanged, and the html itself when it holds no '</head>'.
C9_Amended == C9_Holds(<<"\n">>)

\* A document with two '</head>' was converted with a known template.
C9_Witness ==
    \E r \in 1..Len(requests) :
        /\ requests[r].templateName = ModernName
        /\ requests[r].input.html.val = <<"</head>", "<p>x</p>", "</head>">>
        /\ requests[r].state = "stored"

\* The base name as the claim words it, computed in one pass over the
\* trimmed name: the first character of a whitespace run gives '_', the rest
\* of the run nothing, a character of [A-Za-z0-9_-] itself, any other nothing.
C10_Trimmed(s) ==
    LET solid == {i \in 1..Len(s) : s[i] \notin {" ", "\t", "\n", "\r", "\f"}}
        lo == CHOOSE i \in solid : \A j \in solid : i <= j
        hi == CHOOSE i \in solid : \A j \in solid : i >= j
    IN  SubSeq(s, lo, hi)

RECURSIVE C10_Scan(_, _)
C10_Scan(t, i) ==
    IF i > Len(t) THEN <<>>
    ELSE (IF t[i] \in {" ", "\t", "\n", "\r", "\f"}
          THEN (IF i > 1 /\ t[i - 1] \in {" ", "\t", "\n", "\r", "\f"}
                THEN <<>> ELSE <<"_">>)
          ELSE IF t[i] \in SafeChars THEN <<t[i]>> ELSE <<>>)
            \o C10_Scan(t, i + 1)

C10_Base(personName) ==
    IF /\ personName.type = "string"
       /\ \E i \in 1..Len(personName.val) :
             personName.val[i] \notin {" ", "\t", "\n", "\r", "\f"}
    THEN LET clean == C10_Scan(C10_Trimmed(personName.val), 1)
         IN  IF Len(clean) > 50 THEN SubSeq(clean, 1, 50) ELSE clean
    ELSE <<"C", "V">>

\* C10: the filename is base + '_' + the template name with its first
\* character upper-cased + '_' + the first 8 characters of an identifier
\* generated for this request and used for nothing else + '.pdf'; personName
\* 'Jane  Doe!!' with template 'modern' gives 'Jane_Doe_Modern_<8 chars>.pdf'.
C10_Filename ==
    \A r \in 1..Len(requests) :
        LET q == requests[r]
            t == q.templateName
        IN  /\ q.filename =
                  C10_Base(q.input.personName) \o <<"_">>
                      \o <<ToUpperCase(t[1])>> \o SubSeq(t, 2, Len(t)) \o <<"_">>
                      \o q.uniqueId \o <<".", "p", "d", "f">>
            /\ Len(q.uniqueId) = 8
            /\ \E n \in 1..nextUuid :
                  /\ q.uniqueId = SubSeq(Uuid(n), 1, 8)
                  /\ \A r2 \in 1..Len(requests) : requests[r2].id # Uuid(n)
                  /\ \A r2 \in 1..Len(requests) :
                        r2 # r => requests[r2].uniqueId # q.uniqueId
            /\ (q.input.personName = JsString(JaneDoe) /\ t = ModernName)
                  => /\ SubSeq(q.filename, 1, 16) =
                           <<"J","a","n","e","_","D","o","e","_",
                             "M","o","d","e","r","n","_">>
                     /\ Len(q.filename) = 28

\* 'Jane  Doe!!' was converted with template 'modern' and stored.
C10_Witness ==
    \E r \in StoredRequests :
        /\ requests[r].input.personName = JsString(JaneDoe)
        /\ requests[r].templateName = ModernName
        /\ pdfStore # <<>>

\* The base name of a conversion: its filename without
\* '_' + template suffix + '_' + 8 characters + '.pdf'.
C11_BaseOf(q) == SubSeq(q.filename, 1, Len(q.filename) - Len(q.templateName) - 14)

\* C11 as claimed: deriving the base name from a derived base name gives
\* that base name again, for every personName string.
C11_Claim ==
    \A r \in 1..Len(requests) :
        requests[r].input.personName.type = "string"
            => BaseName(JsString(C11_BaseOf(requests[r]))) = C11_BaseOf(requests[r])

\* C12: no two conversions have the same id; a render stores under an id
\* that is not a key of the store, was never stored by another conversion
\* and has no timer yet; every timer belongs to exactly one stored
\* conversion, and a timer that fires removes no entry of another id.
C12_FreshIds ==
    /\ [](\A r1, r2 \in 1..Len(requests) :
            r1 # r2 => requests[r1].id # requests[r2].id)
    /\ [](\A t \in timers :
            Cardinality({r \in StoredRequests : requests[r].id = t.id}) = 1)
    /\ [](\A id \in RequestableIds :
            Cardinality({t \in timers : t.id = id}) <= 1)
    /\ [][\A r \in 1..Len(requests) :
            /\ (requests[r].state = "rendering" /\ requests'[r].state = "stored")
                  => /\ requests[r].id \notin DOMAIN pdfStore
                     /\ ~TimerPending(requests[r].id)
                     /\ \A r2 \in StoredRequests : requests[r2].id # requests[r].id
            /\ (last'.op = "expire" /\ requests[r].id # last'.id
                    /\ requests[r].id \in DOMAIN pdfStore)
                  => requests[r].id \in DOMAIN pdfStore']_vars

\* The timer of the first artifact fired after its download while a later
\* artifact was in the store, which is still there.
C12_Witness ==
    /\ Len(requests) = 2
    /\ last.op = "expire" /\ last.id = requests[1].id
    /\ ok200[requests[1].id] = 1
    /\ requests[2].state = "stored"
    /\ requests[2].id \in DOMAIN pdfStore

\* C13: a render callback that succeeds stores the bytes it was given and
\* the filename of its own request under the id of its own request, answers
\* with that id and filename, and leaves every other entry as it was; a
\* callback that fails leaves the store as it was; an entry in the store
\* always holds the bytes and the filename of the request that owns its id.
C13_Independent ==
    /\ [](\A r \in StoredRequests :
            requests[r].id \in DOMAIN pdfStore
                => pdfStore[requests[r].id] =
                       [buffer |-> requests[r].buffer, filename |-> requests[r].filename])
    /\ [][\A r \in 1..Len(requests) :
            /\ (requests[r].state = "rendering" /\ requests'[r].state = "stored")
                  => /\ last'.op = "render" /\ last'.req = r
                     /\ last'.id = requests[r].id
                     /\ last'.filename = requests[r].filename
                     /\ requests[r].id \in DOMAIN pdfStore'
                     /\ pdfStore'[requests[r].id].filename = requests[r].filename
                     /\ pdfStore'[requests[r].id].buffer \in {"%PDF-a", "%PDF-b"}
                     /\ \A k \in DOMAIN pdfStore :
                           k \in DOMAIN pdfStore' /\ pdfStore'[k] = pdfStore[k]
                     /\ DOMAIN pdfStore' = DOMAIN pdfStore \cup {requests[r].id}
                     /\ \A r2 \in 1..Len(requests) :
                           r2 # r => requests'[r2] = requests[r2]
            /\ (requests[r].state = "rendering" /\ requests'[r].state = "failed")
                  => pdfStore' = pdfStore]_vars

\* Two conversions were in flight; the second one's render completed
\* first, then the first one's, with different bytes, and both are stored.
C13_Witness ==
    /\ Len(requests) = 2
    /\ last.op = "render" /\ last.req = 1 /\ last.status = 200
    /\ requests[2].state = "stored"
    /\ requests[1].buffer # requests[2].buffer
    /\ DOMAIN pdfStore = {requests[1].id, requests[2].id}

(***************************************************************************)
(* The specification with time: the clock does not stop while a timer is   *)
(* pending, and a timer that is due fires.                                 *)
(***************************************************************************)
TickLive ==
    /\ \/ now + TickMs <= MaxTicks * TickMs
       \/ \E t \in timers : now < t.due
    /\ now' = now + TickMs
    /\ last' = Event("tick")
    /\ UNCHANGED <<pdfStore, timers, requests, nextUuid, ok200>>

LivePost ==
    /\ Len(requests) < MaxLiveRequests
    /\ \E template \in {Undefined, JsString(LineFeedName)} :
          PreparePdf(JsString(SomeDocument), Undefined, template)

NextLive == LivePost \/ RenderError \/ RenderDone \/ Get \/ Expire \/ TickLive

SpecLive == Init /\ [][NextLive]_vars /\ WF_vars(TickLive) /\ WF_vars(Expire)

\* C14: every entry of the store has a pending expiry timer for its id, and,
\* timers firing when due, every stored artifact is eventually absent from
\* the store, downloaded or not.
C14_NoEntryForever ==
    /\ [](\A id \in DOMAIN pdfStore : \E t \in timers : t.id = id /\ t.due <= now + 600000)
    /\ \A id \in RequestableIds :
          (id \in DOMAIN pdfStore) ~> (id \notin DOMAIN pdfStore)

\* An artifact that no download could take (every GET of it was answered
\* 500) has been removed by its timer.
C14_Witness ==
    \E r \in StoredRequests :
        /\ requests[r].input.template = JsString(LineFeedName)
        /\ last.op = "expire" /\ last.id = requests[r].id
        /\ requests[r].id \notin DOMAIN pdfStore

\* C15: while a conversion is rendering, its id is not in the store and has
\* no timer, and a GET of it answers 404; an id enters the store only in the
\* step in which its own render succeeds, answered 200; a stored entry
\* leaves the store by a download of its id answered 200 or by the firing of
\* a timer of its id, whichever comes first, and does not come back.
C15_Lifecycle ==
    /\ [](\A r \in 1..Len(requests) :
            requests[r].state = "rendering"
                => requests[r].id \notin DOMAIN pdfStore /\ ~TimerPending(requests[r].id))
    /\ [](\A id \in DOMAIN pdfStore : \E r \in StoredRequests : requests[r].id = id)
    /\ [][\A id \in RequestableIds :
            /\ (id \notin DOMAIN pdfStore /\ id \in DOMAIN pdfStore')
                  => /\ last'.op = "render" /\ last'.status = 200 /\ last'.id = id
                     /\ \E r \in 1..Len(requests) :
                           /\ requests[r].id = id
                           /\ requests[r].state = "rendering"
                           /\ requests'[r].state = "stored"
            /\ (/\ last'.op = "download" /\ last'.id = id
                /\ \E r \in 1..Len(requests) :
                      requests[r].id = id /\ requests[r].state = "rendering")
                  => last'.status = 404 /\ pdfStore' = pdfStore
            /\ (id \in DOMAIN pdfStore /\ id \notin DOMAIN pdfStore')
                  => /\ last'.id = id
                     /\ \/ last'.op = "download" /\ last'.status = 200
                        \/ last'.op = "expire"
                     /\ \A r \in 1..Len(requests) : requests'[r].state # "rendering"
                            \/ requests'[r].id # id]_vars

\* A GET of an id whose render had not completed was answered 404, with the
\* conversion still rendering.
C15_Witness ==
    \E r \in 1..Len(requests) :
        /\ requests[r].state = "rendering"
        /\ last.op = "download" /\ last.id = requests[r].id /\ last.status = 404

\* C16 as claimed: after a successful GET /download/{id} no expiry timer of
\* that id is pending.
C16_Claim ==
    \A id \in RequestableIds : ok200[id] >= 1 => ~TimerPending(id)

\* C16 as amended: a successful download leaves the timers as they were, the
\* timer of the downloaded id included; a timer leaves the pending set only
\* by firing, when due; and the firing of the timer of a downloaded id
\* leaves the store unchanged.
C16_Amended ==
    [][/\ (last'.op = "download" /\ last'.status = 200)
             => timers' = timers /\ TimerPending(last'.id)
       /\ \A t \in timers :
             t \notin timers'
                 => last'.op = "expire" /\ last'.id = t.id /\ now >= t.due
       /\ (last'.op = "expire" /\ ok200[last'.id] >= 1) => pdfStore' = pdfStore]_vars

\* An id has just been downloaded and its timer is still pending.
C16_Witness ==
    /\ last.op = "download" /\ last.status = 200
    /\ ok200[last.id] = 1
    /\ TimerPending(last.id)

\* The entries of every id but id are the same before and after the step.
C17_OthersUnchanged(id) ==
    /\ DOMAIN pdfStore' \ {id} = DOMAIN pdfStore \ {id}
    /\ \A k \in DOMAIN pdfStore \ {id} :
          /\ pdfStore'[k].buffer = pdfStore[k].buffer
          /\ pdfStore'[k].filename = pdfStore[k].filename

\* C17: a download answered 200, the firing of a timer and the storing of a
\* new artifact leave the entry of every other id unchanged; a download
\* answered 404 leaves the whole store unchanged.
C17_Frame ==
    [][/\ (last'.op = "download" /\ last'.status = 200) => C17_OthersUnchanged(last'.id)
       /\ last'.op = "expire" => C17_OthersUnchanged(last'.id)
       /\ (last'.op = "render" /\ last'.status = 200) => C17_OthersUnchanged(last'.id)
       /\ (last'.op = "download" /\ last'.status = 404) => pdfStore' = pdfStore]_vars

\* An artifact has just been stored beside an older one, which is still
\* in the store.
C17_Witness ==
    /\ last.op = "render" /\ last.status = 200
    /\ Cardinality(DOMAIN pdfStore) = 2

\* C18: a conversion whose template parameter is absent or '' has template
\* name 'classic', the filename segment 'Classic' and the classic style tag
\* inserted before the first '</head>' of its html; and a conversion of an
\* html holding '</head>' that is handed to the renderer unchanged has a
\* non-empty template value other than 'classic', 'modern' and 'minimal'.
C18_DefaultClassic ==
    \A r \in 1..Len(requests) :
        LET q == requests[r]
            html == q.input.html.val
            hasHead == \E i \in 1..Len(html) : html[i] = "</head>"
        IN  /\ q.input.template \in {Undefined, JsString(<<>>)}
                  => /\ q.templateName = <<"c","l","a","s","s","i","c">>
                     /\ q.filename =
                           C10_Base(q.input.personName)
                               \o <<"_","C","l","a","s","s","i","c","_">>
                               \o q.uniqueId \o <<".", "p", "d", "f">>
                     /\ IF hasHead
                        THEN C9_InsertedBeforeFirst(html, q.finalHtml,
                                 <<"<style id=\"template-injection\">",
                                   "/* Classic Styles */", "</style>", "\n">>)
                        ELSE q.finalHtml = html
            /\ (hasHead /\ q.finalHtml = html)
                  => /\ q.input.template.type = "string"
                     /\ q.input.template.val # <<>>
                     /\ q.input.template.val \notin KnownTemplates

\* An html with '</head>' was converted with template '' and stored.
C18_Witness ==
    \E r \in StoredRequests :
        /\ requests[r].input.template = JsString(<<>>)
        /\ \E i \in 1..Len(requests[r].input.html.val) :
              requests[r].input.html.val[i] = "</head>"
        /\ requests[r].id \in DOMAIN pdfStore

====
